---- MODULE Spec2Model ----
(***************************************************************************)
(* pyshacl/constraints/sparql/sparql_based_constraint_components.py        *)
(*                                                                         *)
(* A model of the SPARQL-based constraint components: the validator cache  *)
(* and its type dispatch (SPARQLConstraintComponentValidator.__new__), the *)
(* two validators' constructors and validate methods, the selection of a   *)
(* validator for a shape (make_validator_for_shape) and the evaluation     *)
(* loop of BoundShapeValidatorComponent.                                   *)
(***************************************************************************)
EXTENDS Integers, Sequences, FiniteSets, TLC

VARIABLES
    validator_cache,  \* SPARQLConstraintComponentValidator.validator_cache: key -> instance id, 0 = absent
    insts,            \* the validator objects that were cached, by instance id
    firstOf,          \* history: key -> the instance the first successful resolve of the key returned
    made,             \* history: the <<key, instance>> pairs ever stored into the cache
    last,             \* history: the last resolve / make_validator_for_shape call and its outcome
    bound,            \* the BoundShapeValidatorComponent make_validator_for_shape returned last
    ev,               \* the evaluate call in progress: its locals and its outcome
    qlog,             \* history: the queries the current call executed, with their results
    vcall             \* history: the last validate call and what it returned

vars == <<validator_cache, insts, firstOf, made, last, bound, ev, qlog, vcall>>

-----------------------------------------------------------------------------
(* RDF terms. A term is its class, its lexical form (a tuple of tokens, so *)
(* the empty string is <<>>) and, for a literal, its datatype.             *)

Term(c, l, d) == [cls |-> c, lex |-> l, dt |-> d]
None == Term("None", <<>>, "")
PyTrue == Term("bool", <<"True">>, "")
URIRef(l) == Term("URIRef", l, "")
BNode(l) == Term("BNode", l, "")
StrLit(l) == Term("Literal", l, "string")
IntLit(l) == Term("Literal", l, "integer")
BoolLit(l) == Term("Literal", l, "boolean")

\* str(term): the lexical form alone, the term's class is dropped
Str(t) == t.lex

\* isinstance(m, rdflib.Literal) and isinstance(m.value, str)
IsStrLiteral(t) == t.cls = "Literal" /\ t.dt = "string"

\* the Python value of a literal is truthy
ValueTruthy(t) ==
    IF t.dt = "integer" THEN t.lex # <<"0">>
    ELSE IF t.dt = "boolean" THEN t.lex = <<"true">>
    ELSE t.lex # <<>>

\* bool(x) of what a result row holds: None is false, a URIRef or BNode is a
\* str and is false when empty, a Literal is false when its value is
PyBool(t) ==
    IF t = None THEN FALSE
    ELSE IF t = PyTrue THEN TRUE
    ELSE IF t.cls = "Literal" THEN ValueTruthy(t)
    ELSE t.lex # <<>>

-----------------------------------------------------------------------------
(* The schema graph, as a rule node's triples read at the time of a call:  *)
(* sg.objects(node, RDF_type), (node, SH_select), (node, SH_ask) and       *)
(* (node, SH_message).                                                     *)

SH_SPARQLSelectValidator == "sh:SPARQLSelectValidator"
SH_SPARQLAskValidator == "sh:SPARQLAskValidator"
OtherType == "ex:OtherType"

Q1 == StrLit(<<"Q1">>)
Q2 == StrLit(<<"Q2">>)
NonStringQuery == IntLit(<<"5">>)
MsgThisValue == StrLit(<<"{$this}", " has bad ", "{$value}">>)
NonStringMessage == IntLit(<<"7">>)

TypeSets == {{}, {OtherType}, {SH_SPARQLSelectValidator}, {SH_SPARQLAskValidator},
             {SH_SPARQLSelectValidator, SH_SPARQLAskValidator}}
QuerySets == {{}, {Q1}, {Q1, Q2}, {NonStringQuery}}
MessageSets == {{}, {MsgThisValue}, {NonStringMessage}}

NodeDescs == [types : TypeSets, select : QuerySets, ask : QuerySets, message : MessageSets]

\* the graph objects, by id(shacl_graph.graph)
Graphs == {1, 2}
\* rule nodes: two of them have the same str()
NodeA == URIRef(<<"a">>)
NodeA2 == BNode(<<"a">>)
NodeC == URIRef(<<"c">>)
Nodes == {NodeA, NodeA2, NodeC}
\* the rule nodes the cache is exercised with
CacheNodes == {NodeA, NodeA2}
Keys == Graphs \X {Str(n) : n \in Nodes}

-----------------------------------------------------------------------------
(* SPARQLConstraintComponentValidator.__new__ and the constructors          *)

NoInst == 0
NoKind == "none"

CacheKey(g, n) == <<g, Str(n)>>

CacheGetAlwaysMiss(c, key) == NoInst
\* cls.validator_cache.get(cache_key, False)
CacheGet(c, key) == c[key]

ValidatorTypeAskFirst(d) ==
    IF Cardinality(d.types) > 0 /\ SH_SPARQLSelectValidator \in d.types THEN "Select"
    ELSE IF Cardinality(d.types) > 0 /\ SH_SPARQLAskValidator \in d.types THEN "Ask"
    ELSE IF Cardinality(d.ask) > 0 THEN "Ask"
    ELSE IF Cardinality(d.select) > 0 THEN "Select"
    ELSE NoKind
\* the type dispatch of __new__: explicit type, then sh:select, then sh:ask
ValidatorType(d) ==
    IF Cardinality(d.types) > 0 /\ SH_SPARQLSelectValidator \in d.types THEN "Select"
    ELSE IF Cardinality(d.types) > 0 /\ SH_SPARQLAskValidator \in d.types THEN "Ask"
    ELSE IF Cardinality(d.select) > 0 THEN "Select"
    ELSE IF Cardinality(d.ask) > 0 THEN "Ask"
    ELSE NoKind

Failed(why) == [ok |-> FALSE, err |-> why,
                obj |-> [kind |-> NoKind, node |-> None, query_text |-> <<>>,
                         messages |-> {}, initialised |-> FALSE]]

\* SPARQLConstraintComponentValidator.__init__ on a new object: every
\* sh:message must be a string literal
BaseInit(kind, n, d) ==
    IF \E m \in d.message : ~IsStrLiteral(m)
    THEN Failed("message")
    ELSE [ok |-> TRUE, err |-> "",
          obj |-> [kind |-> kind, node |-> n, query_text |-> <<>>,
                   messages |-> d.message, initialised |-> TRUE]]

\* the body of AskConstraintValidator.__init__ / SelectConstraintValidator.__init__
\* after the base constructor: exactly one sh:ask (sh:select), a string literal
QueryInit(obj, d) ==
    LET vals == IF obj.kind = "Select" THEN d.select ELSE d.ask
    IN  IF Cardinality(vals) < 1 \/ Cardinality(vals) > 1
        THEN Failed("count")
        ELSE LET qv == CHOOSE x \in vals : TRUE
             IN  IF ~IsStrLiteral(qv)
                 THEN Failed("literal")
                 ELSE [ok |-> TRUE, err |-> "", obj |-> [obj EXCEPT !.query_text = qv.lex]]

\* validator_type(shacl_graph, node): object.__new__ and the full constructor
Construct(kind, n, d) ==
    LET b == BaseInit(kind, n, d)
    IN  IF ~b.ok THEN b ELSE QueryInit(b.obj, d)

\* the constructor run again on an initialised object: the base constructor
\* returns at its guard, the subclass body runs again
ReInit(obj, d) == QueryInit(obj, d)

ResolveFail(c, is, why, hit, kind) ==
    [ok |-> FALSE, err |-> why, hit |-> hit, inst |-> NoInst, kind |-> kind,
     cache |-> c, insts |-> is]

\* SPARQLConstraintComponentValidator(shacl_graph, node): __new__, then the
\* __init__ Python runs on whatever __new__ returned, the object being an instance
\* of the class called. On a hit that run reads the node's triples as they are now;
\* on a miss it repeats, on the same triples, the run that has just succeeded.
Resolve(c, is, g, n, d) ==
    LET key == CacheKey(g, n)
        found == CacheGet(c, key)
    IN  IF found # NoInst
        THEN LET r == ReInit(is[found], d)
             IN  IF ~r.ok THEN ResolveFail(c, is, r.err, TRUE, is[found].kind)
                 ELSE [ok |-> TRUE, err |-> "", hit |-> TRUE, inst |-> found,
                       kind |-> is[found].kind, cache |-> c,
                       insts |-> [is EXCEPT ![found] = r.obj]]
        ELSE LET vt == ValidatorType(d)
             IN  IF vt = NoKind THEN ResolveFail(c, is, "no type", FALSE, NoKind)
                 ELSE LET r == Construct(vt, n, d)
                      IN  IF ~r.ok THEN ResolveFail(c, is, r.err, FALSE, vt)
                          ELSE LET id == Len(is) + 1
                                   r2 == ReInit(r.obj, d)
                               IN  [ok |-> TRUE, err |-> "", hit |-> FALSE, inst |-> id,
                                    kind |-> vt,
                                    cache |-> [c EXCEPT ![key] = id],
                                    insts |-> Append(is, r2.obj)]

-----------------------------------------------------------------------------
NoBound == [constraint |-> None, is_property_shape |-> FALSE, validator |-> NoInst,
            node |-> None, query_text |-> <<>>, messages |-> {}]
NoResult == [tag |-> "none", conforms |-> FALSE, reports |-> <<>>]
\* no evaluate call yet
IdleEv == [pc |-> "idle", todo |-> <<>>, f |-> None, violations |-> {}, reports |-> <<>>,
           srcs |-> <<>>, non_conformant |-> FALSE, extra_messages |-> <<>>, lost |-> 0,
           result |-> NoResult]
NoVCall == [kind |-> NoKind, f |-> None, results |-> {}, raised |-> FALSE,
            violations |-> {}]

\* the history of a resolve: the real key, and the first instance returned for it
RealKey(g, n) == <<g, n.lex>>
NoteFirst(f, g, n, r) ==
    IF r.ok /\ f[RealKey(g, n)] = NoInst THEN [f EXCEPT ![RealKey(g, n)] = r.inst] ELSE f
NoteMade(m, g, n, r) ==
    IF r.ok /\ ~r.hit THEN m \cup {<<RealKey(g, n), r.inst>>} ELSE m

NoPools == [validators |-> {}, node_validators |-> {}, property_validators |-> {}]
EmptyDesc == [types |-> {}, select |-> {}, ask |-> {}, message |-> {}]
\* what a call looked like and how it ended; ok = FALSE is a ConstraintLoadError
CallRecord(op, g, n, d, r, isp, pools, pool, ok, err, bev) ==
    [op |-> op, g |-> g, n |-> n, d |-> d, resolved |-> r.ok, hit |-> r.hit,
     inst |-> r.inst, kind |-> r.kind, is_property_shape |-> isp, pools |-> pools,
     pool |-> pool, ok |-> ok, err |-> err, bev |-> bev]
NoResolve == [ok |-> FALSE, err |-> "", hit |-> FALSE, inst |-> NoInst, kind |-> NoKind]
NoCall == CallRecord("none", 1, None, EmptyDesc, NoResolve, FALSE, NoPools, "none",
                     FALSE, "", NoBound)

Init ==
    /\ validator_cache = [k \in Keys |-> NoInst]
    /\ insts = <<>>
    /\ firstOf = [k \in Keys |-> NoInst]
    /\ made = {}
    /\ last = NoCall
    /\ bound = NoBound
    /\ ev = IdleEv
    /\ qlog = {}
    /\ vcall = NoVCall

\* a call SPARQLConstraintComponentValidator(shacl_graph, node)
ResolveCall(g, n, d) ==
    LET r == Resolve(validator_cache, insts, g, n, d)
    IN  /\ validator_cache' = r.cache
        /\ insts' = r.insts
        /\ firstOf' = NoteFirst(firstOf, g, n, r)
        /\ made' = NoteMade(made, g, n, r)
        /\ last' = CallRecord("resolve", g, n, d, r, FALSE, NoPools, "none", r.ok, r.err,
                              NoBound)
        /\ UNCHANGED <<bound, ev, qlog, vcall>>

-----------------------------------------------------------------------------
(* SPARQLConstraintComponent.make_validator_for_shape                       *)

\* the constraint component's node, and the path of a property shape
ComponentNode == URIRef(<<"ex:Component">>)
ShapePath == URIRef(<<"ex:shapePath">>)

\* which pool the validator node is taken from
PickPool(isp, pools) ==
    IF isp /\ Cardinality(pools.property_validators) > 0 THEN "property"
    ELSE IF (~isp) /\ Cardinality(pools.node_validators) > 0 THEN "node"
    ELSE IF Cardinality(pools.validators) > 0 THEN "generic"
    ELSE "none"

PoolNodes(pools, pool) ==
    IF pool = "property" THEN pools.property_validators
    ELSE IF pool = "node" THEN pools.node_validators
    ELSE IF pool = "generic" THEN pools.validators
    ELSE {}

\* BoundShapeValidatorComponent.__init__: the constraint, the shape, the validator
\* and a query helper holding the validator's node, query text and messages
BoundShapeValidatorComponent(isp, id, obj) ==
    [constraint |-> ComponentNode, is_property_shape |-> isp, validator |-> id,
     node |-> obj.node, query_text |-> obj.query_text, messages |-> obj.messages]

ApplyUnchecked(isp, id, obj, must_be_ask_val, must_be_select_val) ==
    [ok |-> TRUE, err |-> "", bev |-> BoundShapeValidatorComponent(isp, id, obj)]
\* apply_to_shape_via_constraint: the validator's class against what the pool requires
ApplyToShapeViaConstraint(isp, id, obj, must_be_ask_val, must_be_select_val) ==
    IF must_be_ask_val /\ obj.kind # "Ask"
    THEN [ok |-> FALSE, err |-> "must be ask", bev |-> NoBound]
    ELSE IF must_be_select_val /\ obj.kind # "Select"
    THEN [ok |-> FALSE, err |-> "must be select", bev |-> NoBound]
    ELSE [ok |-> TRUE, err |-> "", bev |-> BoundShapeValidatorComponent(isp, id, obj)]

\* a call constraint.make_validator_for_shape(shape), the constraint living in graph g
MakeValidatorForShape(g, isp, pools, d) ==
    LET pool == PickPool(isp, pools)
    IN  IF pool = "none"
        THEN /\ last' = CallRecord("make", g, None, d, NoResolve, isp, pools, pool, FALSE,
                                   "no pool", NoBound)
             /\ UNCHANGED <<validator_cache, insts, firstOf, made, bound, ev, qlog, vcall>>
        ELSE \E n \in PoolNodes(pools, pool) :
             LET r == Resolve(validator_cache, insts, g, n, d)
                 a == IF r.ok
                      THEN ApplyToShapeViaConstraint(isp, r.inst, r.insts[r.inst],
                                                     pool = "generic", pool # "generic")
                      ELSE [ok |-> FALSE, err |-> r.err, bev |-> NoBound]
             IN  /\ validator_cache' = r.cache
                 /\ insts' = r.insts
                 /\ firstOf' = NoteFirst(firstOf, g, n, r)
                 /\ made' = NoteMade(made, g, n, r)
                 /\ last' = CallRecord("make", g, n, d, r, isp, pools, pool, a.ok, a.err, a.bev)
                 /\ bound' = IF a.ok THEN a.bev ELSE bound
                 /\ UNCHANGED <<ev, qlog, vcall>>

-----------------------------------------------------------------------------
(* AskConstraintValidator.validate and SelectConstraintValidator.validate    *)

\* a violation: (val, False), (val, True) or (val, (t, p, v))
BoolSignal(val, b) == [val |-> val, kind |-> "bool", b |-> b, t |-> None, p |-> None,
                       v |-> None]
TupleSignal(val, t, p, v) == [val |-> val, kind |-> "tuple", b |-> FALSE, t |-> t,
                              p |-> p, v |-> v]

\* what result.askAnswer gives: True, False, None, or no such attribute or key
AskAnswers == {"True", "False", "None", "Missing"}

AskViolatesUnlessTrue(answer) == answer # "True"
\* answer is False
AskViolates(answer) == answer = "False"

\* the except clause around the query and result.askAnswer
AskRaises(answer) == answer = "Missing"

\* AskConstraintValidator.validate: one query per value node, answers[v] its result
AskValidate(value_nodes, answers) ==
    [raised |-> \E v \in value_nodes : AskRaises(answers[v]),
     violations |-> {BoolSignal(v, FALSE) : v \in {x \in value_nodes : AskViolates(answers[x])}}]

\* f is True or (isinstance(f, rdflib.Literal) and f.value)
FailureTruthy(f) == f = PyTrue \/ (f.cls = "Literal" /\ ValueTruthy(f))

\* the interpretation of one result row; a field the row lacks (KeyError) or
\* leaves unbound reads as None
RowSignals(v, r) ==
    IF PyBool(r.path) \/ PyBool(r.value) \/ PyBool(r.this)
    THEN {TupleSignal(v, r.this, r.path, r.value)}
    ELSE IF FailureTruthy(r.failure)
    THEN {BoolSignal(v, TRUE)}
    ELSE {}

\* SelectConstraintValidator.validate: one query per value node, results[v] its rows
SelectValidate(value_nodes, results) ==
    [raised |-> FALSE,
     violations |-> UNION {UNION {RowSignals(v, r) : r \in results[v]} : v \in value_nodes}]

-----------------------------------------------------------------------------
(* The query helper's message binding and the report builder                 *)

\* the constraint's parameters as the query helper binds them for the shape
ParamBindMap == ("minLen" :> IntLit(<<"3">>))

Placeholder == [this |-> "{$this}", value |-> "{$value}", path |-> "{$path}",
                minLen |-> "{$minLen}"]

\* dict.update: the new entry replaces an old one of the same name
Update(m, k, v) == (k :> v) @@ m

RECURSIVE BindTokens(_, _)
\* every placeholder of a bound name replaced by str() of its value, other text kept
BindTokens(toks, args) ==
    IF toks = <<>> THEN <<>>
    ELSE LET names == {a \in DOMAIN args : Placeholder[a] = Head(toks)}
             first == IF names = {} THEN <<Head(toks)>>
                      ELSE Str(args[CHOOSE a \in names : TRUE])
         IN  first \o BindTokens(Tail(toks), args)

\* query_helper.bind_messages(args): the validator's messages, bound
BindMessages(messages, args) == {StrLit(BindTokens(m.lex, args)) : m \in messages}

\* the orders in which a set can be iterated into a list
Orderings(S) == {sq \in [1..Cardinality(S) -> S] : {sq[i] : i \in DOMAIN sq} = S}

\* make_v_result(target_graph, focus, value_node=, result_path=, constraint_component=,
\* extra_messages=): the report holds the messages the list has when it is built
MakeVResult(focus, value_node, result_path, constraint_component, extra_messages) ==
    [focus |-> focus, value_node |-> value_node, result_path |-> result_path,
     constraint_component |-> constraint_component, messages |-> extra_messages]

-----------------------------------------------------------------------------
(* BoundShapeValidatorComponent.evaluate                                     *)

ReportValAlways(isp, val) == val
\* report_val = val if not self.shape.is_property_shape else None
ReportVal(isp, val) == IF isp THEN None ELSE val

\* msg_args_map: the parameters, this, value and, on a property shape, the path
MsgArgsMap(isp, f, val) ==
    LET m == Update(Update(ParamBindMap, "this", f), "value", val)
    IN  IF isp THEN Update(m, "path", ShapePath) ELSE m

\* new_msg_args_map of a (t, p, v) violation
NewMsgArgsMap(isp, f, s) ==
    LET m0 == MsgArgsMap(isp, f, s.val)
        m1 == IF s.v = None THEN m0 ELSE Update(m0, "value", s.v)
        m2 == IF s.p # None THEN Update(m1, "path", s.p) ELSE m1
    IN  IF s.t # None THEN Update(m2, "this", s.t) ELSE m2

\* the arguments of the binding whose messages go into the report
ReportMsgArgs(isp, f, s) ==
    IF s.kind = "tuple" THEN NewMsgArgsMap(isp, f, s) ELSE MsgArgsMap(isp, f, s.val)

NeverFailure(s) == FALSE
\* isinstance(vio, bool) and vio is not False: the violation raises ValidationFailure
IsFailureSignal(s) == s.kind = "bool" /\ s.b

\* new_kwargs = rept_kwargs.copy(); new_kwargs['extra_messages'].extend(bound): the
\* copy is shallow, the list extended is the one list of the call
ExtendMessages(extra_messages, bound_messages) == extra_messages \o bound_messages

\* the report built for a violation, extra being the call's list once extended
ViolationReport(bev, f, s, extra) ==
    IF s.kind = "tuple"
    THEN LET v == IF s.v = None THEN ReportVal(bev.is_property_shape, s.val) ELSE s.v
         IN  MakeVResult(IF PyBool(s.t) THEN s.t ELSE f, v, s.p, bev.constraint, extra)
    ELSE MakeVResult(f, ReportVal(bev.is_property_shape, s.val), None, bev.constraint, extra)

\* the exception leaves evaluate: its locals are gone and nothing is returned
Raised(e) == [e EXCEPT !.pc = "raised", !.todo = <<>>, !.violations = {},
                       !.reports = <<>>, !.srcs = <<>>, !.extra_messages = <<>>,
                       !.lost = Len(e.reports),
                       !.result = [tag |-> "raised", conforms |-> FALSE, reports |-> <<>>]]

\* back to the outer loop once the violations of a focus node are consumed
AfterFocus(e) == IF e.violations = {} THEN [e EXCEPT !.pc = "loop", !.todo = Tail(e.todo)]
                 ELSE [e EXCEPT !.pc = "vios"]

\* evaluate(target_graph, focus_value_nodes) is entered
EvalBegin(fvn) ==
    /\ ev.pc \in {"idle", "returned", "raised"}
    /\ bound # NoBound
    /\ ev' = [IdleEv EXCEPT !.pc = "loop", !.todo = fvn]
    /\ qlog' = {}
    /\ UNCHANGED <<validator_cache, insts, firstOf, made, last, bound, vcall>>

QueryEntry(f, v, kind, answer, rows) ==
    [f |-> f, v |-> v, kind |-> kind, answer |-> answer, rows |-> rows]

\* the next focus node: self.validator.validate(f, value_nodes, ...)
EvalFocusWith(r, entries) ==
    /\ qlog' = qlog \cup entries
    /\ ev' = IF r.raised THEN Raised(ev)
             ELSE AfterFocus([ev EXCEPT !.f = Head(ev.todo).f, !.violations = r.violations])
    /\ UNCHANGED <<validator_cache, insts, firstOf, made, last, bound, vcall>>

EvalFocusAsk ==
    /\ ev.pc = "loop" /\ ev.todo # <<>>
    /\ insts[bound.validator].kind = "Ask"
    /\ LET f == Head(ev.todo).f
           vs == Head(ev.todo).values
       IN  \E answers \in [vs -> AskAnswers] :
              EvalFocusWith(AskValidate(vs, answers),
                            {QueryEntry(f, v, "Ask", answers[v], {}) : v \in vs})

EvalFocusSelect(ResultSets) ==
    /\ ev.pc = "loop" /\ ev.todo # <<>>
    /\ insts[bound.validator].kind = "Select"
    /\ LET f == Head(ev.todo).f
           vs == Head(ev.todo).values
       IN  \E results \in [vs -> ResultSets] :
              EvalFocusWith(SelectValidate(vs, results),
                            {QueryEntry(f, v, "Select", "", results[v]) : v \in vs})

\* one pass of the inner loop, over a violation the set's iteration yields
EvalViolation ==
    /\ ev.pc = "vios"
    /\ \E s \in ev.violations :
       \E bm \in Orderings(BindMessages(bound.messages,
                                        ReportMsgArgs(bound.is_property_shape, ev.f, s))) :
          LET extra == ExtendMessages(ev.extra_messages, bm)
              rest == [ev EXCEPT !.violations = ev.violations \ {s}, !.non_conformant = TRUE]
          IN  ev' = IF IsFailureSignal(s) THEN Raised(ev)
                    ELSE AfterFocus([rest EXCEPT
                            !.reports = Append(ev.reports, ViolationReport(bound, ev.f, s, extra)),
                            !.srcs = Append(ev.srcs, [f |-> ev.f, s |-> s]),
                            !.extra_messages = extra])
    /\ UNCHANGED <<validator_cache, insts, firstOf, made, last, bound, qlog, vcall>>

\* return (not non_conformant), reports
EvalReturn ==
    /\ ev.pc = "loop" /\ ev.todo = <<>>
    /\ ev' = [ev EXCEPT !.pc = "returned",
                        !.result = [tag |-> "returned", conforms |-> ~ev.non_conformant,
                                    reports |-> ev.reports]]
    /\ UNCHANGED <<validator_cache, insts, firstOf, made, last, bound, qlog, vcall>>

\* a direct call validator.validate(focus, value_nodes, target_graph, query_helper)
ValidateCall(kind, f, results, r) ==
    /\ vcall' = [kind |-> kind, f |-> f, results |-> results, raised |-> r.raised,
                 violations |-> IF r.raised THEN {} ELSE r.violations]
    /\ UNCHANGED <<validator_cache, insts, firstOf, made, last, bound, ev, qlog>>

AskValidateCall(f, vs) ==
    /\ bound # NoBound /\ insts[bound.validator].kind = "Ask"
    /\ \E answers \in [vs -> AskAnswers] :
          ValidateCall("Ask", f, {QueryEntry(f, v, "Ask", answers[v], {}) : v \in vs},
                       AskValidate(vs, answers))

SelectValidateCall(f, vs, ResultSets) ==
    /\ bound # NoBound /\ insts[bound.validator].kind = "Select"
    /\ \E results \in [vs -> ResultSets] :
          ValidateCall("Select", f, {QueryEntry(f, v, "Select", "", results[v]) : v \in vs},
                       SelectValidate(vs, results))

-----------------------------------------------------------------------------
\* the node descriptions the cache is exercised with: valid and invalid rule nodes
Desc(t, s, a, m) == [types |-> t, select |-> s, ask |-> a, message |-> m]
CacheDescs ==
    { Desc({}, {}, {Q1}, {MsgThisValue}),
      Desc({SH_SPARQLAskValidator}, {Q1}, {Q2}, {}),
      Desc({}, {Q1}, {}, {}),
      Desc({SH_SPARQLSelectValidator}, {Q2}, {Q1}, {MsgThisValue}),
      Desc({}, {}, {Q1, Q2}, {}),
      Desc({}, {}, {}, {}),
      Desc({}, {}, {Q1}, {NonStringMessage}),
      Desc({}, {NonStringQuery}, {}, {}) }

Next ==
    \/ \E g \in Graphs, n \in CacheNodes, d \in CacheDescs : ResolveCall(g, n, d)

Spec == Init /\ [][Next]_vars

\* the type dispatch over every node description, on one cache key
NextDispatch ==
    \/ \E d \in NodeDescs : ResolveCall(1, NodeC, d)

SpecDispatch == Init /\ [][NextDispatch]_vars

\* the pools of a constraint component, and the rule nodes' descriptions, for
\* make_validator_for_shape
PoolChoices == [validators : {{}, {NodeA}}, node_validators : {{}, {NodeC}},
                property_validators : {{}, {NodeA, NodeC}}]
MakeDescs ==
    { Desc({}, {}, {Q1}, {MsgThisValue}),
      Desc({}, {Q1}, {}, {}),
      Desc({}, {}, {Q1, Q2}, {}),
      Desc({}, {}, {}, {}) }

NextMake ==
    \/ \E isp \in BOOLEAN, pools \in PoolChoices, d \in MakeDescs :
          MakeValidatorForShape(1, isp, pools, d)

SpecMake == Init /\ [][NextMake]_vars

\* focus nodes, value nodes and the terms a result row can hold
FocusA == URIRef(<<"ex:A">>)
FocusB == URIRef(<<"ex:B">>)
Foci == {FocusA, FocusB}
ValueX == StrLit(<<"x">>)
ValueY == StrLit(<<"y">>)
ValueNodes == {ValueX, ValueY}
ThisT == URIRef(<<"ex:T">>)
PathP == URIRef(<<"ex:p">>)
ValueBad == StrLit(<<"bad">>)
Zero == IntLit(<<"0">>)
EmptyString == StrLit(<<>>)
LitTrue == BoolLit(<<"true">>)
LitFalse == BoolLit(<<"false">>)

\* the rule nodes an evaluator is built from: one ask validator, one select validator
MsgAll == StrLit(<<"{$this}", " has bad ", "{$value}", " at ", "{$path}">>)
EvalDescs ==
    { Desc({}, {}, {Q1}, {MsgAll}),
      Desc({}, {Q1}, {}, {MsgAll}) }
EvalPools ==
    { [validators |-> {NodeA}, node_validators |-> {}, property_validators |-> {}],
      [validators |-> {}, node_validators |-> {NodeC}, property_validators |-> {NodeC}] }

\* the most queries one evaluate call runs
MaxQueries == 2

Pairs(fvn) == UNION {{<<fvn[i].f, v>> : v \in fvn[i].values} : i \in DOMAIN fvn}
\* focus_value_nodes: a dict, so distinct focus nodes in insertion order, each with
\* its set of value nodes
FocusValueInputs ==
    LET entries == [f : Foci, values : SUBSET ValueNodes]
        lists == {<<>>} \cup {<<e>> : e \in entries}
                 \cup {<<e1, e2>> : e1 \in entries, e2 \in entries}
    IN  {l \in lists : \A i \in DOMAIN l : \A j \in DOMAIN l : (i # j => l[i].f # l[j].f)}

BoundedInputs == {l \in FocusValueInputs :
                    Cardinality(Pairs(l)) <= MaxQueries
                    /\ \A i \in DOMAIN l : l[i].values # {} \/ Len(l) = 1}

\* the result rows of a select query during evaluate
\* (every structured shape, and the rows that flag a failure)
EvalRows == [this : {None, ThisT, Zero}, path : {None, PathP},
             value : {None, ValueBad}, failure : {None}]
            \cup [this : {None, Zero}, path : {None}, value : {None}, failure : {LitTrue}]
EvalResultSets == {{}} \cup {{r} : r \in EvalRows}

NextEval ==
    \/ \E isp \in BOOLEAN, pools \in EvalPools, d \in EvalDescs :
          bound = NoBound /\ MakeValidatorForShape(1, isp, pools, d)
    \/ \E fvn \in BoundedInputs : EvalBegin(fvn)
    \/ EvalFocusAsk
    \/ EvalFocusSelect(EvalResultSets)
    \/ EvalViolation
    \/ EvalReturn

SpecEval == Init /\ [][NextEval]_vars

\* the most rows one select query returns to a direct validate call
MaxRows == 2

\* every shape of result row: each field absent, bound to a truthy term or bound to
\* a falsy one
AllRows == [this : {None, ThisT, Zero}, path : {None, PathP, EmptyString},
            value : {None, ValueBad, Zero}, failure : {None, LitTrue, LitFalse}]
RECURSIVE RowSetsUpTo(_)
RowSetsUpTo(n) ==
    IF n = 0 THEN {{}}
    ELSE LET fewer == RowSetsUpTo(n - 1)
         IN  fewer \cup {rs \cup {r} : rs \in fewer, r \in AllRows}

NextValidate ==
    \/ \E isp \in BOOLEAN, pools \in EvalPools, d \in EvalDescs :
          bound = NoBound /\ MakeValidatorForShape(1, isp, pools, d)
    \/ \E f \in Foci, vs \in SUBSET ValueNodes :
          vcall = NoVCall /\ AskValidateCall(f, vs)
    \/ \E f \in Foci, v \in ValueNodes :
          vcall = NoVCall /\ SelectValidateCall(f, {v}, RowSetsUpTo(MaxRows))

SpecValidate == Init /\ [][NextValidate]_vars

-----------------------------------------------------------------------------
(* The resolver's properties                                               *)

C2_RuleKind(d) ==
    IF SH_SPARQLSelectValidator \in d.types THEN "Select"
    ELSE IF SH_SPARQLAskValidator \in d.types THEN "Ask"
    ELSE IF d.select # {} THEN "Select"
    ELSE IF d.ask # {} THEN "Ask"
    ELSE NoKind

C2_OneStringQuery(vals) == Cardinality(vals) = 1 /\ \A q \in vals : IsStrLiteral(q)
C2_Miss == last.op = "resolve" /\ ~last.hit
C2_ResolvedAs(kind) == last.ok /\ last.inst # NoInst /\ insts[last.inst].kind = kind

\* the first sentence of the claim: on a miss the kind is the first matching rule's,
\* and no matching rule is a load error
C2_Order ==
    C2_Miss =>
       /\ last.kind = C2_RuleKind(last.d)
       /\ last.ok => C2_ResolvedAs(C2_RuleKind(last.d))
       /\ C2_RuleKind(last.d) = NoKind => (~last.ok /\ last.err = "no type")

\* C2 (amended): on a cache miss the kind is chosen by the first matching rule, in the
\* order explicit select type, explicit ask type, select predicate, ask predicate, and
\* no match is a load error. A node resolves to a boolean-check validator exactly
\* when the rules choose the boolean kind, it has exactly one ask predicate whose
\* value is a string literal, and all its messages are string literals; likewise
\* for the tabular kind and the select predicate.
C2_KindByOrderedRules ==
    /\ C2_Order
    /\ C2_Miss =>
          /\ C2_ResolvedAs("Ask") <=>
                /\ C2_RuleKind(last.d) = "Ask"
                /\ C2_OneStringQuery(last.d.ask)
                /\ \A m \in last.d.message : IsStrLiteral(m)
          /\ C2_ResolvedAs("Select") <=>
                /\ C2_RuleKind(last.d) = "Select"
                /\ C2_OneStringQuery(last.d.select)
                /\ \A m \in last.d.message : IsStrLiteral(m)

\* an explicit ask type wins over a select predicate
C2_Witness ==
    /\ C2_Miss /\ C2_ResolvedAs("Ask")
    /\ last.d.select # {}
    /\ Cardinality(last.d.ask) = 1

\* C2 as stated: the order, and a node with exactly one ask predicate and no
\* conflicting (select) type resolves to a boolean-check validator, a node with
\* exactly one select predicate and no conflicting (ask without select) type to a
\* tabular-check validator
C2_AsStated ==
    /\ C2_Order
    /\ (C2_Miss /\ Cardinality(last.d.ask) = 1
          /\ SH_SPARQLSelectValidator \notin last.d.types) => C2_ResolvedAs("Ask")
    /\ (C2_Miss /\ Cardinality(last.d.select) = 1
          /\ ~(SH_SPARQLAskValidator \in last.d.types
               /\ SH_SPARQLSelectValidator \notin last.d.types)) => C2_ResolvedAs("Select")

\* the pool the claim names for a shape
C8_Pool(isp, pools) ==
    IF isp /\ pools.property_validators # {} THEN "property"
    ELSE IF (~isp) /\ pools.node_validators # {} THEN "node"
    ELSE IF pools.validators # {} THEN "generic"
    ELSE "none"
C8_PoolNodes(pools, pool) ==
    IF pool = "property" THEN pools.property_validators
    ELSE IF pool = "node" THEN pools.node_validators
    ELSE pools.validators
C8_Required(pool) == IF pool = "generic" THEN "Ask" ELSE "Select"

\* C8: make_validator_for_shape takes the rule node from the property pool for a
\* property shape when that pool is non-empty, from the node pool for a node shape
\* when that pool is non-empty, otherwise from the generic pool. A BoundEvaluator is
\* returned only when the rule resolved, to a tabular-check validator for the
\* property and node pools and to a boolean-check validator for the generic pool;
\* with the wrong kind or no pool the call ends in a load error and returns none.
C8_PoolAndKind ==
    last.op = "make" =>
       LET pool == C8_Pool(last.is_property_shape, last.pools)
       IN  /\ last.pool = pool
           /\ pool = "none" => (~last.ok /\ ~last.resolved)
           /\ pool # "none" => last.n \in C8_PoolNodes(last.pools, pool)
           /\ (last.resolved /\ insts[last.inst].kind # C8_Required(pool)) => ~last.ok
           /\ (last.resolved /\ insts[last.inst].kind = C8_Required(pool)) => last.ok
           /\ ~last.resolved => ~last.ok
           /\ ~last.ok => last.bev = NoBound
           /\ last.ok =>
                 /\ last.bev = bound
                 /\ bound.validator = last.inst
                 /\ bound.is_property_shape = last.is_property_shape
                 /\ insts[bound.validator].kind = C8_Required(pool)

\* a rule from the property pool resolved from the cache to a boolean-check
\* validator: a load error, and nothing is returned
C8_Witness ==
    /\ last.op = "make" /\ last.pool = "property" /\ last.hit /\ last.resolved
    /\ insts[last.inst].kind = "Ask"
    /\ ~last.ok /\ last.bev = NoBound
    /\ last.pools.validators # {}

-----------------------------------------------------------------------------
(* The evaluator's properties                                              *)

AskBacked == bound # NoBound /\ insts[bound.validator].kind = "Ask"
\* the reports of the call that came from the violation of value node v of focus f
ReportsOf(f, v) == {i \in DOMAIN ev.reports : ev.srcs[i].f = f /\ ev.srcs[i].s.val = v}

\* C3: an evaluator backed by a boolean-check validator returns exactly one violation
\* report for each (focus, value node) pair whose answer is false and none for a
\* pair whose answer is true, and its conforms flag is true exactly when the
\* returned list of reports is empty.
C3_BooleanReports ==
    (AskBacked /\ ev.pc = "returned") =>
       /\ ev.result.reports = ev.reports
       /\ \A q \in qlog :
             /\ q.answer = "False" =>
                   /\ Cardinality(ReportsOf(q.f, q.v)) = 1
                   /\ \A i \in ReportsOf(q.f, q.v) :
                         /\ ev.reports[i].focus = q.f
                         /\ ev.reports[i].value_node \in {q.v, None}
             /\ q.answer = "True" => ReportsOf(q.f, q.v) = {}
       /\ Len(ev.result.reports) = Cardinality({q \in qlog : q.answer = "False"})
       /\ ev.result.conforms <=> (ev.result.reports = <<>>)

\* a call returned one report although another pair's answer was true
C3_Witness ==
    /\ AskBacked /\ ev.pc = "returned"
    /\ Len(ev.result.reports) = 1 /\ ~ev.result.conforms
    /\ \E q \in qlog : q.answer = "True"
    /\ \E q \in qlog : q.answer = "False"

\* a row with a truthy failure field and no path, value or this field
FailureOnlyRow(r) ==
    /\ r.path = None /\ r.value = None /\ r.this = None
    /\ r.failure = PyTrue \/ (r.failure.cls = "Literal" /\ ValueTruthy(r.failure))
FailureRowSeen == \E q \in qlog : \E r \in q.rows : FailureOnlyRow(r)

\* C4: when the tabular query of any focus node of an evaluate call returns a row with
\* a truthy failure field and no path, value or this field, the call never returns
\* a (conforms, reports) result: it raises a validation failure, the reports it had
\* accumulated are gone, and the failure is never made a report.
C4_FailureAborts ==
    /\ \A i \in DOMAIN ev.srcs : ~(ev.srcs[i].s.kind = "bool" /\ ev.srcs[i].s.b)
    /\ FailureRowSeen =>
          /\ ev.pc # "returned"
          /\ ev.pc \in {"raised", "vios"}
          /\ ev.pc = "vios" => \E s \in ev.violations : s.kind = "bool" /\ s.b
          /\ ev.pc = "raised" => (ev.result.tag = "raised" /\ ev.result.reports = <<>>)

\* the failure was raised after a report had been accumulated
C4_Witness ==
    /\ FailureRowSeen /\ ev.pc = "raised" /\ ev.lost >= 1
    /\ ev.result.tag = "raised" /\ ev.result.reports = <<>>

\* C5: messages are bound per violation. Every message of a report is one of the
\* rule's message templates bound with the this/value/path arguments of the report's
\* own violation (the constraint has no messages of its own).
C5_MessagesPerViolation ==
    \A i \in DOMAIN ev.reports :
       \A k \in DOMAIN ev.reports[i].messages :
          ev.reports[i].messages[k] \in
             BindMessages(bound.messages,
                          ReportMsgArgs(bound.is_property_shape, ev.srcs[i].f, ev.srcs[i].s))

\* C6: a structured signal (this, path, value2) for focus f gives exactly one report,
\* whose focus is this when the row provides it and f otherwise, whose path is the
\* row's path when provided and whose value is the row's value when provided; a
\* query with zero rows gives no report.
C6_TabularOverrides ==
    /\ \A i \in DOMAIN ev.reports :
          LET s == ev.srcs[i].s
              f == ev.srcs[i].f
              r == ev.reports[i]
          IN  s.kind = "tuple" =>
                 /\ r.focus = (IF s.t # None THEN s.t ELSE f)
                 /\ s.p # None => r.result_path = s.p
                 /\ s.v # None => r.value_node = s.v
                 /\ \A j \in DOMAIN ev.reports : (ev.srcs[j] = ev.srcs[i]) => j = i
    /\ \A q \in qlog : (q.kind = "Select" /\ q.rows = {}) => ReportsOf(q.f, q.v) = {}

\* C7: a violation without an explicit value (a boolean-check miss, or a tabular row
\* without a value field) is reported with no value node on a property shape and
\* with the original value node on a node shape.
C7_DefaultValue ==
    \A i \in DOMAIN ev.reports :
       LET s == ev.srcs[i].s
       IN  ((s.kind = "bool" /\ ~s.b) \/ (s.kind = "tuple" /\ s.v = None)) =>
              ev.reports[i].value_node = (IF bound.is_property_shape THEN None ELSE s.val)

\* a row with a path and no value was reported on a property shape, with no value node
C7_Witness ==
    \E i \in DOMAIN ev.reports :
       /\ ev.srcs[i].s.kind = "tuple" /\ ev.srcs[i].s.v = None /\ ev.srcs[i].s.p # None
       /\ bound.is_property_shape
       /\ ev.reports[i].value_node = None

\* what the claim has a row emit for value node v
C9_Emits(v, r) ==
    IF r.path # None \/ r.value # None \/ r.this # None
    THEN {TupleSignal(v, r.this, r.path, r.value)}
    ELSE IF r.failure = PyTrue \/ (r.failure.cls = "Literal" /\ ValueTruthy(r.failure))
    THEN {BoolSignal(v, TRUE)}
    ELSE {}

\* C9: tabular-check validate emits the structured signal for every row in which any
\* of path, value, this is present, whatever term it is bound to; otherwise (v, true)
\* when failure is present and truthy; and nothing for a row with none of these.
C9_RowInterpretation ==
    vcall.kind = "Select" =>
       /\ ~vcall.raised
       /\ vcall.violations = UNION {UNION {C9_Emits(q.v, r) : r \in q.rows} : q \in vcall.results}

\* C10: boolean-check validate raises a validation failure whenever the answer of any
\* value node's query is neither true nor false (missing, or present but None); such
\* an answer is neither a pass nor a violation signal.
C10_UninterpretableRaises ==
    vcall.kind = "Ask" =>
       /\ (\E q \in vcall.results : q.answer \notin {"True", "False"}) => vcall.raised
       /\ \A s \in vcall.violations :
             \E q \in vcall.results : q.v = s.val /\ q.answer = "False"

-----------------------------------------------------------------------------
(* The constructor run again on a cached validator                          *)

\* C11: a resolve of a key that is already cached (the constructor runs again on the
\* cached instance) has no side effect and raises no load error: every instance keeps
\* its rule node, kind, query text and message templates, and the cache is unchanged.
C11_ReconstructNoOp ==
    [][(last'.op = "resolve"
          /\ CacheGet(validator_cache, CacheKey(last'.g, last'.n)) # NoInst)
       => (/\ insts' = insts
           /\ validator_cache' = validator_cache
           /\ last'.ok)]_vars

====
